---- MODULE Spec2Model ----
(***************************************************************************)
(* v.out.geojson: export of a vector map to GeoJSON through a temporary    *)
(* location in the requested EPSG projection (src/v.out.geojson.py).       *)
(*                                                                         *)
(* Every invocation is one process p.  Its module globals, its local       *)
(* variables of main(), its environment, its two output streams and its    *)
(* position in the script are functions of p; the GRASS database (the      *)
(* locations below GISDBASE) and the file system are shared.               *)
(***************************************************************************)
EXTENDS Integers, Sequences, FiniteSets, TLC

\* ------------------------------------------------------------------ bounds
MaxLen == 3        \* longest input= string, in characters

\* The invocations: one runs alone under Spec, the two run together under SpecConc.
Procs == {1, 2}
Chars == {"a", "b", "@"}

\* ----------------------------------------------------------------- strings
RECURSIVE StringsUpTo(_)
StringsUpTo(n) ==
    IF n = 0 THEN {<<>>}
    ELSE LET S == StringsUpTo(n - 1)
         IN  S \cup {Append(s, c) : s \in {t \in S : Len(t) = n - 1}, c \in Chars}

\* "@" in vect
Contains(s, c) == \E i \in 1..Len(s) : s[i] = c

\* str.split(sep) for a one-character separator: always at least one part
RECURSIVE SplitFrom(_, _, _, _)
SplitFrom(s, sep, i, cur) ==
    IF i > Len(s) THEN <<cur>>
    ELSE IF s[i] = sep THEN <<cur>> \o SplitFrom(s, sep, i + 1, <<>>)
    ELSE SplitFrom(s, sep, i + 1, Append(cur, s[i]))

Split(s, sep) == SplitFrom(s, sep, 1, <<>>)

\* int(options["epsg"]) on a string of decimal digits
RECURSIVE ParseInt(_)
ParseInt(s) ==
    IF Len(s) = 0 THEN 0
    ELSE 10 * ParseInt(SubSeq(s, 1, Len(s) - 1)) + s[Len(s)]

\* str(epsg) of a non-negative integer: no leading zeros
RECURSIVE Str(_)
Str(n) == IF n < 10 THEN <<n>> ELSE Append(Str(n \div 10), n % 10)

\* ------------------------------------------------------------ environment
\* A path or a location name: <<kind, pid, name>>.
None == <<"None", 0, "">>
OrigGisrc == <<"gisrc", 0, "rc0">>
OrigGisdbase == <<"gisdbase", 0, "grassdata">>
OrigLocation == <<"location", 0, "nc_spm">>
OrigMapset == <<"user1">>
TmpMapset == <<"PERMANENT">>

\* The EPSG codes the CRS registry resolves (those of the test suite).
Registry == {4326, 3358}

\* What the caller may pass.
InputStrings == StringsUpTo(MaxLen) \ {<<>>}
OutputStrings == {"-", "out.geojson"}
EpsgStrings == {<<4, 3, 2, 6>>, <<0, 4, 3, 2, 6>>, <<3, 3, 5, 8>>, <<3, 3, 5, 8, 8, 8>>}
TempNames == {"tmp_r1", "tmp_r2"}

VARIABLES
    pc,         \* position of each process in the script
    options,    \* grass.parser(): input, output, epsg as given
    rm_file, TMPLOC, SRCGISRC, TGTGISRC, GISDBASE,     \* module globals
    locals,     \* main()'s tgtloc, tgtmapset, name, vectmapset, geojsonfile, gj
    environ,    \* os.environ: GISRC and whether the three settings were written
    stdout, stderr,
    exitcode,   \* -1 while running, then the process's exit status
    trace,      \* the lifecycle states the invocation has entered, in order
    calls,      \* arguments of the v.proj and v.out.ogr invocations, in order
    failedAt,   \* the step whose error ended main(), "" if none
    sig,        \* the signal that hit the process, "" if none
    dirs,       \* locations that exist below GISDBASE
    files       \* files that exist: path -> content

vars == <<pc, options, rm_file, TMPLOC, SRCGISRC, TGTGISRC, GISDBASE, locals,
          environ, stdout, stderr, exitcode, trace, calls, failedAt, sig, dirs, files>>

Msg(kind, input, epsg, output) ==
    [kind |-> kind, input |-> input, epsg |-> epsg, output |-> output]

\* What a file holds: the three keys of a GISRC file, or the layer a GeoJSON file
\* was exported from together with the location whose projection it carries.
FileContent(mapset, gisdbase, location, layer) ==
    [MAPSET |-> mapset, GISDBASE |-> gisdbase, LOCATION_NAME |-> location,
     layer |-> layer]

RcContent(mapset, gisdbase, location) == FileContent(mapset, gisdbase, location, <<>>)

EmptyContent == FileContent(<<>>, None, None, <<>>)

\* What a stream's reader gets from one write to standard output.
StdoutItem(kind, msg, doc) == [kind |-> kind, msg |-> msg, doc |-> doc]

NoLocals ==
    [tgtloc |-> None, tgtmapset |-> <<>>, name |-> <<>>, vectmapset |-> <<>>,
     geojsonfile |-> None, gj |-> EmptyContent]

\* os.getpid(): distinct for processes that are alive together
Pid(p) == p

InitWith(started, Inputs, Outputs, Epsgs) ==
    /\ pc = [p \in Procs |-> IF p \in started THEN "main" ELSE "idle"]
    /\ options \in [Procs -> [input : Inputs, output : Outputs, epsg : Epsgs]]
    /\ \A p \in Procs \ started :
          options[p] = [input |-> <<"a">>, output |-> "-", epsg |-> <<4, 3, 2, 6>>]
    /\ rm_file = [p \in Procs |-> <<>>]
    /\ TMPLOC = [p \in Procs |-> None]
    /\ SRCGISRC = [p \in Procs |-> None]
    /\ TGTGISRC = [p \in Procs |-> None]
    /\ GISDBASE = [p \in Procs |-> None]
    /\ locals = [p \in Procs |-> NoLocals]
    /\ environ = [p \in Procs |-> [GISRC |-> OrigGisrc, tuned |-> FALSE]]
    /\ stdout = [p \in Procs |-> <<>>]
    /\ stderr = [p \in Procs |-> <<>>]
    /\ exitcode = [p \in Procs |-> -1]
    /\ trace = [p \in Procs |-> IF p \in started THEN <<"INIT">> ELSE <<>>]
    /\ calls = [p \in Procs |-> <<>>]
    /\ failedAt = [p \in Procs |-> ""]
    /\ sig = [p \in Procs |-> ""]
    /\ dirs = {OrigLocation}
    /\ files = (OrigGisrc :> RcContent(OrigMapset, OrigGisdbase, OrigLocation))

\* One invocation, every input.
Init == InitWith({1}, InputStrings, OutputStrings, EpsgStrings)

\* Every process runs; the inputs that do not matter to the naming are fixed.
InitConc == InitWith(Procs, {<<"a">>}, OutputStrings, {<<4, 3, 2, 6>>})

\* ------------------------------------------------------------------ helpers
\* MainOrder with the export moved before the reprojection.
MainOrder_ExportFirst ==
    <<"main", "get_actual_location",
      "tempfile", "write_gisrc", "proj_test", "g.proj -c", "switch", "verify",
      "split", "output", "v.out.ogr", "v.proj", "report">>

\* MainOrder with get_actual_location() called after createTMPlocation().
MainOrder_RecordLate ==
    <<"main",
      "tempfile", "write_gisrc", "proj_test", "g.proj -c", "switch", "verify",
      "get_actual_location", "split", "v.proj", "output", "v.out.ogr", "report">>

\* The statements of main(), createTMPlocation() inlined at its call, in the order
\* of the source up to the branch on the output option.
MainOrder ==
    <<"main", "get_actual_location",
      "tempfile", "write_gisrc", "proj_test", "g.proj -c", "switch", "verify",
      "split", "v.proj", "output", "v.out.ogr", "report">>

StepAfter(l) == MainOrder[(CHOOSE i \in 1..Len(MainOrder) : MainOrder[i] = l) + 1]

Goto(p, l) == pc' = [pc EXCEPT ![p] = l]

Advance(p) == Goto(p, StepAfter(pc[p]))

Say(p, msgs) == stderr' = [stderr EXCEPT ![p] = stderr[p] \o msgs]

Enter(p, state) == trace' = [trace EXCEPT ![p] = Append(trace[p], state)]

\* An uncaught exception, or grass.fatal(): main() ends here, the interpreter
\* exits with status 1 and runs the registered cleanup on its way out.
Raise(p, where, msgs) ==
    /\ Goto(p, "cleanup")
    /\ exitcode' = [exitcode EXCEPT ![p] = 1]
    /\ failedAt' = [failedAt EXCEPT ![p] = where]
    /\ Say(p, msgs \o <<Msg("error", <<>>, <<>>, where)>>)

NoRaise == UNCHANGED <<exitcode, failedAt>>

\* The location the commands of p run in: what its GISRC file names.
ActiveLocation(p) ==
    IF environ[p].GISRC \in DOMAIN files
    THEN files[environ[p].GISRC].LOCATION_NAME
    ELSE None

ActiveMapset(p) ==
    IF environ[p].GISRC \in DOMAIN files
    THEN files[environ[p].GISRC].MAPSET
    ELSE <<>>

Remove(f, paths) == [x \in DOMAIN f \ paths |-> f[x]]

Range(s) == {s[i] : i \in 1..Len(s)}

\* ------------------------------------------------------------------- main()
\* TmpLocName without the process id.
TmpLocName_NoPid(p) == <<"temp_import_location_", 0, "">>

\* "temp_import_location_" + str(os.getpid())
TmpLocName(p) == <<"temp_import_location_", Pid(p), "">>

\* grass.tempfile(): g.tempfile pid=os.getpid() names the file after the pid
TempFileName(p) == <<"tempfile", Pid(p), "0">>

\* lines 129-141: the input option is read, the three settings are written to
\* os.environ and the first message is printed
MainStart(p) ==
    /\ pc[p] = "main"
    /\ environ' = [environ EXCEPT ![p].tuned = TRUE]
    /\ Say(p, <<Msg("Export input as GeoJSON...", <<>>, <<>>, "")>>)
    /\ Advance(p)
    /\ NoRaise
    /\ UNCHANGED <<options, rm_file, TMPLOC, SRCGISRC, TGTGISRC, GISDBASE, locals,
                   stdout, trace, calls, sig, dirs, files>>

\* lines 113-121 and 143: grass.gisenv() of the active location, os.environ["GISRC"]
get_actual_location(p) ==
    /\ pc[p] = "get_actual_location"
    /\ \E ok \in BOOLEAN :
          IF ok /\ environ[p].GISRC \in DOMAIN files
          THEN /\ GISDBASE' = [GISDBASE EXCEPT ![p] = files[environ[p].GISRC].GISDBASE]
               /\ TGTGISRC' = [TGTGISRC EXCEPT ![p] = environ[p].GISRC]
               /\ locals' = [locals EXCEPT ![p].tgtloc = ActiveLocation(p),
                                           ![p].tgtmapset = ActiveMapset(p)]
               /\ Advance(p)
               /\ NoRaise
               /\ UNCHANGED stderr
          ELSE /\ Raise(p, "g.gisenv", <<>>)
               /\ UNCHANGED <<GISDBASE, TGTGISRC, locals>>
    /\ UNCHANGED <<options, rm_file, TMPLOC, SRCGISRC, environ, stdout, trace, calls,
                   sig, dirs, files>>

\* line 84: SRCGISRC = grass.tempfile() creates the file
CreateTempfile(p) ==
    /\ pc[p] = "tempfile"
    /\ \E ok \in BOOLEAN :
          IF ok
          THEN /\ SRCGISRC' = [SRCGISRC EXCEPT ![p] = TempFileName(p)]
               /\ files' = (TempFileName(p) :> EmptyContent) @@ files
               /\ Advance(p)
               /\ NoRaise
               /\ UNCHANGED stderr
          ELSE /\ Raise(p, "g.tempfile", <<>>)
               /\ UNCHANGED <<SRCGISRC, files>>
    /\ UNCHANGED <<options, rm_file, TMPLOC, TGTGISRC, GISDBASE, locals, environ,
                   stdout, trace, calls, sig, dirs>>

\* lines 85-91: TMPLOC is named and the GISRC file of the temporary location written
WriteGisrc(p) ==
    /\ pc[p] = "write_gisrc"
    /\ TMPLOC' = [TMPLOC EXCEPT ![p] = TmpLocName(p)]
    /\ files' = (SRCGISRC[p] :> RcContent(TmpMapset, GISDBASE[p], TmpLocName(p))) @@ files
    /\ Advance(p)
    /\ NoRaise
    /\ UNCHANGED <<options, rm_file, SRCGISRC, TGTGISRC, GISDBASE, locals, environ,
                   stdout, stderr, trace, calls, sig, dirs>>

\* lines 93-97: g.proj -g in the active location decides between epsg= and srid=
ProjTest(p) ==
    /\ pc[p] = "proj_test"
    /\ \E ok \in BOOLEAN :
          IF ok
          THEN Advance(p) /\ NoRaise /\ UNCHANGED stderr
          ELSE Raise(p, "g.proj -g", <<>>)
    /\ UNCHANGED <<options, rm_file, TMPLOC, SRCGISRC, TGTGISRC, GISDBASE, locals,
                   environ, stdout, trace, calls, sig, dirs, files>>

\* CanCreate with any code accepted.
CanCreate_AnyCode(p) == TMPLOC[p] \notin dirs

\* g.proj -c succeeds only for a code the registry resolves and a location that
\* does not exist yet
CanCreate(p) == ParseInt(options[p].epsg) \in Registry /\ TMPLOC[p] \notin dirs

\* lines 99-100: the temporary location is created with the requested code
CreateLocation(p) ==
    /\ pc[p] = "g.proj -c"
    /\ \E ok \in BOOLEAN :
          IF ok /\ CanCreate(p)
          THEN /\ dirs' = dirs \cup {TMPLOC[p]}
               /\ Say(p, <<Msg("Creating temporary location with EPSG:%d...", <<>>,
                               Str(ParseInt(options[p].epsg)), "")>>)
               /\ Enter(p, "TEMP_WORKSPACE_CREATED")
               /\ Advance(p)
               /\ NoRaise
          ELSE /\ Raise(p, "g.proj -c",
                         <<Msg("Creating temporary location with EPSG:%d...", <<>>,
                               Str(ParseInt(options[p].epsg)), "")>> \o
                         (IF ParseInt(options[p].epsg) \in Registry THEN <<>>
                          ELSE <<Msg("EPSG PCS/GCS code %d not found in EPSG support files.",
                                     <<>>, Str(ParseInt(options[p].epsg)), "")>>))
               /\ UNCHANGED <<dirs, trace>>
    /\ UNCHANGED <<options, rm_file, TMPLOC, SRCGISRC, TGTGISRC, GISDBASE, locals,
                   environ, stdout, calls, sig, files>>

\* line 103: os.environ["GISRC"] = str(SRCGISRC)
SwitchToTmp(p) ==
    /\ pc[p] = "switch"
    /\ environ' = [environ EXCEPT ![p].GISRC = SRCGISRC[p]]
    /\ Enter(p, "WORKSPACE_SWITCHED")
    /\ Advance(p)
    /\ NoRaise
    /\ UNCHANGED <<options, rm_file, TMPLOC, SRCGISRC, TGTGISRC, GISDBASE, locals,
                   stdout, stderr, calls, sig, dirs, files>>

\* lines 104-110: g.proj -g in the new location must report the requested code;
\* what it reports is the toolkit's answer
VerifyEpsg(p) ==
    /\ pc[p] = "verify"
    /\ \E ok \in BOOLEAN, new_epsg \in {Str(ParseInt(e)) : e \in EpsgStrings} :
          IF ~ok
          THEN Raise(p, "g.proj -g", <<>>)
          ELSE IF new_epsg # Str(ParseInt(options[p].epsg))
          THEN Raise(p, "fatal", <<Msg("Creation of temporary location failed!",
                                       <<>>, <<>>, "")>>)
          ELSE Advance(p) /\ NoRaise /\ UNCHANGED stderr
    /\ UNCHANGED <<options, rm_file, TMPLOC, SRCGISRC, TGTGISRC, GISDBASE, locals,
                   environ, stdout, trace, calls, sig, dirs, files>>

\* SplitInput defaulting to the mapset that is active when line 150 runs.
SplitInput_ActiveMapset(vect, tgtmapset) ==
    IF Contains(vect, "@")
    THEN LET parts == Split(vect, "@")
         IN  IF Len(parts) = 2
             THEN [ok |-> TRUE, name |-> parts[1], vectmapset |-> parts[2]]
             ELSE [ok |-> FALSE, name |-> <<>>, vectmapset |-> <<>>]
    ELSE [ok |-> TRUE, name |-> vect, vectmapset |-> TmpMapset]

\* lines 147-150: the (name, owning mapset) pair of the input; ok is FALSE where
\* the unpacking of vect.split("@") into two names raises ValueError
SplitInput(vect, tgtmapset) ==
    IF Contains(vect, "@")
    THEN LET parts == Split(vect, "@")
         IN  IF Len(parts) = 2
             THEN [ok |-> TRUE, name |-> parts[1], vectmapset |-> parts[2]]
             ELSE [ok |-> FALSE, name |-> <<>>, vectmapset |-> <<>>]
    ELSE [ok |-> TRUE, name |-> vect, vectmapset |-> tgtmapset]

SplitVect(p) ==
    /\ pc[p] = "split"
    /\ LET r == SplitInput(options[p].input, locals[p].tgtmapset)
       IN  IF r.ok
           THEN /\ locals' = [locals EXCEPT ![p].name = r.name,
                                            ![p].vectmapset = r.vectmapset]
                /\ Advance(p)
                /\ NoRaise
                /\ UNCHANGED stderr
           ELSE /\ Raise(p, "ValueError", <<>>)
                /\ UNCHANGED locals
    /\ UNCHANGED <<options, rm_file, TMPLOC, SRCGISRC, TGTGISRC, GISDBASE, environ,
                   stdout, trace, calls, sig, dirs, files>>

Call(cmd, location, mapset, input, output_layer, output_file, format) ==
    [cmd |-> cmd, location |-> location, mapset |-> mapset, input |-> input,
     output_layer |-> output_layer, output_file |-> output_file, format |-> format]

\* lines 153-160: the arguments of v.proj
VProjCall(p) ==
    Call("v.proj", locals[p].tgtloc, locals[p].vectmapset, locals[p].name,
         locals[p].name, None, "")

\* RunVProj with the command's failure ignored.
RunVProj_ErrorsIgnored(p) ==
    /\ pc[p] = "v.proj"
    /\ calls' = [calls EXCEPT ![p] = Append(calls[p], VProjCall(p))]
    /\ \E ok \in BOOLEAN :
          IF ok
          THEN Enter(p, "LAYER_REPROJECTED")
          ELSE UNCHANGED trace
    /\ Advance(p)
    /\ NoRaise
    /\ UNCHANGED <<options, rm_file, TMPLOC, SRCGISRC, TGTGISRC, GISDBASE, locals,
                   environ, stdout, stderr, sig, dirs, files>>

\* lines 153-160: v.proj into the active location; its failure raises
RunVProj(p) ==
    /\ pc[p] = "v.proj"
    /\ calls' = [calls EXCEPT ![p] = Append(calls[p], VProjCall(p))]
    /\ \E ok \in BOOLEAN :
          IF ok
          THEN /\ Enter(p, "LAYER_REPROJECTED")
               /\ Advance(p)
               /\ NoRaise
               /\ UNCHANGED stderr
          ELSE /\ Raise(p, "v.proj", <<>>)
               /\ UNCHANGED trace
    /\ UNCHANGED <<options, rm_file, TMPLOC, SRCGISRC, TGTGISRC, GISDBASE, locals,
                   environ, stdout, sig, dirs, files>>

\* lines 162-166: a generated name, to be removed at exit, or the caller's path
ChooseOutput(p) ==
    /\ pc[p] = "output"
    /\ IF options[p].output = "-"
       THEN \E r \in TempNames :
               /\ locals' = [locals EXCEPT ![p].geojsonfile = <<"cwd", 0, r>>]
               /\ rm_file' = [rm_file EXCEPT ![p] = Append(rm_file[p], <<"cwd", 0, r>>)]
       ELSE /\ locals' = [locals EXCEPT ![p].geojsonfile = <<"cwd", 0, options[p].output>>]
            /\ UNCHANGED rm_file
    /\ Advance(p)
    /\ NoRaise
    /\ UNCHANGED <<options, TMPLOC, SRCGISRC, TGTGISRC, GISDBASE, environ, stdout,
                   stderr, trace, calls, sig, dirs, files>>

\* line 167: the arguments of v.out.ogr
VOutOgrCall(p) ==
    Call("v.out.ogr", None, <<>>, locals[p].name, <<>>, locals[p].geojsonfile, "GeoJSON")

\* line 167: the export from the active location; a failed export may leave a
\* partial file behind
RunVOutOgr(p) ==
    /\ pc[p] = "v.out.ogr"
    /\ calls' = [calls EXCEPT ![p] = Append(calls[p], VOutOgrCall(p))]
    /\ \E ok \in BOOLEAN, written \in BOOLEAN :
          /\ ok => written
          /\ files' = IF written
                      THEN (locals[p].geojsonfile :>
                              FileContent(<<>>, None, ActiveLocation(p), locals[p].name))
                           @@ files
                      ELSE files
          /\ IF ok
             THEN /\ Enter(p, "EXPORTED")
                  /\ Advance(p)
                  /\ NoRaise
                  /\ UNCHANGED stderr
             ELSE /\ Raise(p, "v.out.ogr", <<>>)
                  /\ UNCHANGED trace
    /\ UNCHANGED <<options, rm_file, TMPLOC, SRCGISRC, TGTGISRC, GISDBASE, locals,
                   environ, stdout, sig, dirs>>

\* lines 168-170: the generated file is opened and parsed
LoadGeojson(p) ==
    /\ pc[p] = "report"
    /\ options[p].output = "-"
    /\ \E ok \in BOOLEAN :
          IF ok /\ locals[p].geojsonfile \in DOMAIN files
          THEN /\ locals' = [locals EXCEPT ![p].gj = files[locals[p].geojsonfile]]
               /\ Goto(p, "message")
               /\ NoRaise
               /\ UNCHANGED stderr
          ELSE /\ Raise(p, "geojson.load", <<>>)
               /\ UNCHANGED locals
    /\ UNCHANGED <<options, rm_file, TMPLOC, SRCGISRC, TGTGISRC, GISDBASE, environ,
                   stdout, trace, calls, sig, dirs, files>>

\* StatusMessage with the code formatted from the integer, as line 99 does.
StatusMessage_IntEpsg(p) ==
    IF options[p].output = "-"
    THEN Msg("GeoJSON of <%s> in EPSG:<%s> is:", options[p].input,
             Str(ParseInt(options[p].epsg)), "")
    ELSE Msg("GeoJSON of <%s> in EPSG:<%s> is saved in <%s>", options[p].input,
             Str(ParseInt(options[p].epsg)), options[p].output)

\* lines 171-173 and 176-179: the text of the status message
StatusMessage(p) ==
    IF options[p].output = "-"
    THEN Msg("GeoJSON of <%s> in EPSG:<%s> is:", options[p].input, options[p].epsg, "")
    ELSE Msg("GeoJSON of <%s> in EPSG:<%s> is saved in <%s>", options[p].input,
             options[p].epsg, options[p].output)

\* WriteStatus with print() in place of grass.message().
WriteStatus_Print(p) ==
    /\ stdout' = [stdout EXCEPT ![p] =
                     Append(stdout[p], StdoutItem("message", StatusMessage(p), EmptyContent))]
    /\ UNCHANGED stderr

\* grass.message() of the status message: to the diagnostic stream
WriteStatus(p) == Say(p, <<StatusMessage(p)>>) /\ UNCHANGED stdout

\* lines 171-173: the status message of stdout mode
ReportStdout(p) ==
    /\ pc[p] = "message"
    /\ WriteStatus(p)
    /\ Goto(p, "print")
    /\ NoRaise
    /\ UNCHANGED <<options, rm_file, TMPLOC, SRCGISRC, TGTGISRC, GISDBASE, locals,
                   environ, trace, calls, sig, dirs, files>>

\* line 174: print(gj)
PrintGeojson(p) ==
    /\ pc[p] = "print"
    /\ \E ok \in BOOLEAN :
          IF ok
          THEN /\ stdout' = [stdout EXCEPT ![p] =
                              Append(stdout[p], StdoutItem("print(gj)", Msg("", <<>>, <<>>, ""),
                                                           locals[p].gj))]
               /\ Enter(p, "PRINTED")
               /\ Goto(p, "restore")
               /\ NoRaise
               /\ UNCHANGED stderr
          ELSE /\ Raise(p, "print", <<>>)
               /\ UNCHANGED <<stdout, trace>>
    /\ UNCHANGED <<options, rm_file, TMPLOC, SRCGISRC, TGTGISRC, GISDBASE, locals,
                   environ, calls, sig, dirs, files>>

\* lines 175-179: the status message of file mode
ReportSaved(p) ==
    /\ pc[p] = "report"
    /\ options[p].output # "-"
    /\ WriteStatus(p)
    /\ Enter(p, "SAVED")
    /\ Goto(p, "restore")
    /\ NoRaise
    /\ UNCHANGED <<options, rm_file, TMPLOC, SRCGISRC, TGTGISRC, GISDBASE, locals,
                   environ, calls, sig, dirs, files>>

\* lines 180-183 and 189: back to the target location, return 0, sys.exit(0)
RestoreGisrc(p) ==
    /\ pc[p] = "restore"
    /\ environ' = [environ EXCEPT ![p].GISRC = TGTGISRC[p]]
    /\ Enter(p, "RESTORED")
    /\ exitcode' = [exitcode EXCEPT ![p] = 0]
    /\ Goto(p, "cleanup")
    /\ UNCHANGED <<options, rm_file, TMPLOC, SRCGISRC, TGTGISRC, GISDBASE, locals,
                   stdout, stderr, calls, failedAt, sig, dirs, files>>

\* ---------------------------------------------------------------- cleanup()
\* lines 70-72: the files of rm_file that exist are removed
FilesOfRmFile(p) == Range(rm_file[p]) \cap DOMAIN files

\* GisrcAfterCleanup without lines 73-74.
GisrcAfterCleanup_NoRestore(p) == environ[p].GISRC

\* lines 73-74: GISRC is set back when the target GISRC was recorded
GisrcAfterCleanup(p) ==
    IF TGTGISRC[p] # None THEN TGTGISRC[p] ELSE environ[p].GISRC

\* lines 76-77: os.path.join(GISDBASE, TMPLOC) raises when GISDBASE is still None,
\* which ends the handler before line 78
RmdirRaises(p) == TMPLOC[p] # None /\ GISDBASE[p] = None

\* DirsAfterCleanup without lines 76-77.
DirsAfterCleanup_Keep(p) == dirs

\* lines 76-77: grass.try_rmdir() of the temporary location
DirsAfterCleanup(p) ==
    IF TMPLOC[p] # None /\ ~RmdirRaises(p) THEN dirs \ {TMPLOC[p]} ELSE dirs

\* lines 78-79: grass.try_remove(SRCGISRC)
GisrcFileToRemove(p) ==
    IF SRCGISRC[p] # None /\ ~RmdirRaises(p) THEN {SRCGISRC[p]} ELSE {}

\* lines 67-79, run by atexit when the interpreter exits, then the process is gone
cleanup(p) ==
    /\ pc[p] = "cleanup"
    /\ Say(p, <<Msg("Cleaning up...", <<>>, <<>>, "")>>)
    /\ files' = Remove(files, FilesOfRmFile(p) \cup GisrcFileToRemove(p))
    /\ environ' = [environ EXCEPT ![p].GISRC = GisrcAfterCleanup(p)]
    /\ dirs' = DirsAfterCleanup(p)
    /\ trace' = [trace EXCEPT ![p] =
                    trace[p] \o <<"CLEANUP", IF exitcode[p] = 0 THEN "DONE" ELSE "FAILED_EXIT">>]
    /\ Goto(p, "exited")
    /\ NoRaise
    /\ UNCHANGED <<options, rm_file, TMPLOC, SRCGISRC, TGTGISRC, GISDBASE, locals,
                   stdout, calls, sig>>

\* ----------------------------------------------------------------- signals
MainPcs ==
    {"main", "get_actual_location", "tempfile", "write_gisrc", "proj_test", "g.proj -c",
     "switch", "verify", "split", "v.proj", "output", "v.out.ogr", "report", "message",
     "print", "restore"}

\* SIGINT: Python raises KeyboardInterrupt in main(); the interpreter exits
\* through its normal shutdown, so the atexit handler of line 188 runs
Interrupt(p) ==
    /\ pc[p] \in MainPcs
    /\ Raise(p, "KeyboardInterrupt", <<>>)
    /\ sig' = [sig EXCEPT ![p] = "SIGINT"]
    /\ UNCHANGED <<options, rm_file, TMPLOC, SRCGISRC, TGTGISRC, GISDBASE, locals,
                   environ, stdout, trace, calls, dirs, files>>

\* A signal Python installs no handler for (SIGTERM, SIGKILL): the process is
\* gone at once; handlers registered with atexit (line 188) are not called
Kill(p) ==
    /\ pc[p] \in MainPcs \cup {"cleanup"}
    /\ Goto(p, "killed")
    /\ sig' = [sig EXCEPT ![p] = "SIGTERM"]
    /\ exitcode' = [exitcode EXCEPT ![p] = -15]
    /\ UNCHANGED <<options, rm_file, TMPLOC, SRCGISRC, TGTGISRC, GISDBASE, locals,
                   environ, stdout, stderr, trace, calls, failedAt, dirs, files>>

\* ------------------------------------------------------------ specification
Next ==
    \E p \in Procs :
        \/ MainStart(p)
        \/ get_actual_location(p)
        \/ CreateTempfile(p)
        \/ WriteGisrc(p)
        \/ ProjTest(p)
        \/ CreateLocation(p)
        \/ SwitchToTmp(p)
        \/ VerifyEpsg(p)
        \/ SplitVect(p)
        \/ RunVProj(p)
        \/ ChooseOutput(p)
        \/ RunVOutOgr(p)
        \/ LoadGeojson(p)
        \/ ReportStdout(p)
        \/ PrintGeojson(p)
        \/ ReportSaved(p)
        \/ RestoreGisrc(p)
        \/ cleanup(p)
        \/ Interrupt(p)
        \/ Kill(p)

Spec == Init /\ [][Next]_vars

SpecConc == InitConc /\ [][Next]_vars

\* ------------------------------------------------------------------- claims
Exited(p) == pc[p] = "exited"

Entered(p, state) == state \in Range(trace[p])

OutputPath(p) == <<"cwd", 0, options[p].output>>

IsStatus(m) ==
    m.kind \in {"GeoJSON of <%s> in EPSG:<%s> is:",
                "GeoJSON of <%s> in EPSG:<%s> is saved in <%s>"}

StatusCount(stream) == Cardinality({i \in 1..Len(stream) : IsStatus(stream[i])})

\* C1: when an invocation has exited, with success or after an error at any step,
\* only the initial location and the initial GISRC file (and, in file mode, the
\* caller's output file) exist: the temporary location, its GISRC file and the
\* generated output file are gone, and GISRC has the value it had at the start.
C1_NothingLeftBehind ==
    \A p \in Procs :
        Exited(p) =>
            /\ dirs = {OrigLocation}
            /\ DOMAIN files \subseteq
                   {OrigGisrc} \cup (IF options[p].output = "-" THEN {} ELSE {OutputPath(p)})
            /\ environ[p].GISRC = OrigGisrc

\* C1 witness: an invocation in stdout mode has exited after its export succeeded
\* and a later step failed.
C1_Witness ==
    \E p \in Procs :
        /\ Exited(p)
        /\ exitcode[p] = 1
        /\ Entered(p, "EXPORTED")
        /\ rm_file[p] # <<>>

Unresolvable(p) == ParseInt(options[p].epsg) \notin Registry

AfterCreation ==
    {"switch", "verify", "split", "v.proj", "output", "v.out.ogr", "report", "message",
     "print", "restore"}

\* C2: with an EPSG code the registry does not resolve, the invocation never gets
\* past the creation of the temporary location: GISRC is never switched, v.proj and
\* v.out.ogr are never invoked, nothing is written to standard output and the output
\* file is not produced, the failure of g.proj -c names the code, and the exit
\* status is not 0.
C2_UnresolvableEpsg ==
    \A p \in Procs :
        (pc[p] # "idle" /\ Unresolvable(p)) =>
            /\ pc[p] \notin AfterCreation
            /\ ~Entered(p, "TEMP_WORKSPACE_CREATED")
            /\ TMPLOC[p] \notin dirs
            /\ environ[p].GISRC = OrigGisrc
            /\ calls[p] = <<>>
            /\ stdout[p] = <<>>
            /\ OutputPath(p) \notin DOMAIN files
            /\ Exited(p) =>
                  /\ exitcode[p] # 0
                  /\ failedAt[p] \in {"g.gisenv", "g.tempfile", "g.proj -g", "g.proj -c",
                                      "KeyboardInterrupt"}
            /\ failedAt[p] = "g.proj -c" =>
                  \E i \in 1..Len(stderr[p]) :
                      stderr[p][i] =
                          Msg("EPSG PCS/GCS code %d not found in EPSG support files.",
                              <<>>, Str(ParseInt(options[p].epsg)), "")

\* C2 witness: an invocation with an unresolvable code has exited after g.proj -c
\* refused it.
C2_Witness ==
    \E p \in Procs :
        /\ Exited(p)
        /\ Unresolvable(p)
        /\ failedAt[p] = "g.proj -c"

\* The lifecycle states of a run in which every step completes.
FullLifecycle(p) ==
    <<"INIT", "TEMP_WORKSPACE_CREATED", "WORKSPACE_SWITCHED", "LAYER_REPROJECTED",
      "EXPORTED", IF options[p].output = "-" THEN "PRINTED" ELSE "SAVED", "RESTORED">>

IsPrefix(a, b) == Len(a) <= Len(b) /\ SubSeq(b, 1, Len(a)) = a

\* The states entered by main(), without those of the exit.
MainTrace(p) ==
    SelectSeq(trace[p], LAMBDA x : x \notin {"CLEANUP", "DONE", "FAILED_EXIT"})

\* C3: an invocation exits with status 0 exactly when no step raised and every
\* step of the lifecycle was completed; otherwise it exits with a status other
\* than 0, and the cleanup at exit leaves the status as main() set it.
C3_ExitCode ==
    \A p \in Procs :
        Exited(p) =>
            /\ exitcode[p] = 0 <=> (failedAt[p] = "" /\ MainTrace(p) = FullLifecycle(p))
            /\ exitcode[p] # 0 <=> failedAt[p] # ""
            /\ exitcode[p] \in {0, 1}

\* C3 witness: one invocation has exited after v.proj failed.
C3_Witness ==
    \E p \in Procs : Exited(p) /\ failedAt[p] = "v.proj" /\ exitcode[p] = 1

\* C4: a successful invocation has written exactly one status message, to the
\* diagnostic stream, with input, code and path as the caller gave them; at no time
\* is a status message on standard output, and no invocation writes the status
\* message of the other mode.
C4_StatusMessage ==
    \A p \in Procs :
        /\ \A i \in 1..Len(stdout[p]) : ~IsStatus(stdout[p][i].msg)
        /\ \A i \in 1..Len(stderr[p]) :
              IsStatus(stderr[p][i]) =>
                  stderr[p][i] =
                      IF options[p].output = "-"
                      THEN [kind |-> "GeoJSON of <%s> in EPSG:<%s> is:",
                            input |-> options[p].input, epsg |-> options[p].epsg,
                            output |-> ""]
                      ELSE [kind |-> "GeoJSON of <%s> in EPSG:<%s> is saved in <%s>",
                            input |-> options[p].input, epsg |-> options[p].epsg,
                            output |-> options[p].output]
        /\ StatusCount(stderr[p]) <= 1
        /\ (Exited(p) /\ exitcode[p] = 0) => StatusCount(stderr[p]) = 1

\* C4 witness: a successful invocation in file mode whose code was given with a
\* leading zero.
C4_Witness ==
    \E p \in Procs :
        /\ Exited(p)
        /\ exitcode[p] = 0
        /\ options[p].output # "-"
        /\ options[p].epsg = <<0, 4, 3, 2, 6>>

\* C5: standard output holds nothing in file mode and nothing before the export
\* has succeeded; in stdout mode it holds at most one item, the document parsed
\* from the file exported for the layer from the temporary location, and exactly
\* that item after a successful run.
C5_StdoutOnlyGeojson ==
    \A p \in Procs :
        /\ stdout[p] # <<>> =>
              /\ options[p].output = "-"
              /\ Entered(p, "EXPORTED")
              /\ Len(stdout[p]) = 1
              /\ stdout[p][1].kind = "print(gj)"
              /\ stdout[p][1].doc = FileContent(<<>>, None, TMPLOC[p], locals[p].name)
        /\ (Exited(p) /\ exitcode[p] = 0 /\ options[p].output = "-") => Len(stdout[p]) = 1

\* C5 witness: a successful invocation in stdout mode.
C5_Witness ==
    \E p \in Procs :
        Exited(p) /\ exitcode[p] = 0 /\ options[p].output = "-" /\ Len(stdout[p]) = 1

\* C6: the lifecycle states are entered in the order INIT, TEMP_WORKSPACE_CREATED,
\* WORKSPACE_SWITCHED, LAYER_REPROJECTED, EXPORTED, PRINTED or SAVED (by mode),
\* RESTORED, each at most once; a successful invocation has entered all of them
\* and then DONE; an invocation that failed has entered a proper prefix of them,
\* then CLEANUP and FAILED_EXIT, and nothing after.
C6_LifecycleOrder ==
    \A p \in Procs :
        pc[p] # "idle" =>
            /\ IsPrefix(MainTrace(p), FullLifecycle(p))
            /\ (Exited(p) /\ exitcode[p] = 0) =>
                  trace[p] = FullLifecycle(p) \o <<"CLEANUP", "DONE">>
            /\ (Exited(p) /\ exitcode[p] # 0) =>
                  /\ trace[p] = MainTrace(p) \o <<"CLEANUP", "FAILED_EXIT">>
                  /\ Len(MainTrace(p)) < Len(FullLifecycle(p))

\* C6 witness: a successful invocation in stdout mode has gone through the whole
\* lifecycle.
C6_Witness ==
    \E p \in Procs :
        /\ Exited(p)
        /\ exitcode[p] = 0
        /\ Entered(p, "PRINTED")
        /\ Entered(p, "RESTORED")

\* The location and the GISRC file an invocation creates exist exactly from its
\* own step that creates them to its own cleanup.
OwnArtifacts(p) ==
    /\ TMPLOC[p] \in dirs <=> (Entered(p, "TEMP_WORKSPACE_CREATED") /\ ~Exited(p))
    /\ SRCGISRC[p] \in DOMAIN files <=> (SRCGISRC[p] # None /\ ~Exited(p))
    /\ (TMPLOC[p] # None /\ ~Exited(p)) =>
          files[SRCGISRC[p]] = RcContent(TmpMapset, OrigGisdbase, TMPLOC[p])

\* C7: two invocations that run together name their temporary locations and GISRC
\* files differently; each one's location and GISRC file exist from its own
\* creation to its own cleanup whatever the other does, and each runs either in
\* the original location or in its own temporary location.
C7_DistinctWorkspaces ==
    \A p \in Procs :
        /\ OwnArtifacts(p)
        /\ environ[p].GISRC \in {OrigGisrc, SRCGISRC[p]}
        /\ \A q \in Procs \ {p} :
              /\ TMPLOC[p] # None => TMPLOC[p] # TMPLOC[q]
              /\ SRCGISRC[p] # None => SRCGISRC[p] # SRCGISRC[q]
              /\ ActiveLocation(p) # None => ActiveLocation(p) # TMPLOC[q]

\* C7 witness: one invocation has created its location, run and cleaned up while
\* the location of the other exists.
C7_Witness ==
    \E p \in Procs, q \in Procs :
        /\ p # q
        /\ Exited(p)
        /\ Entered(p, "TEMP_WORKSPACE_CREATED")
        /\ Entered(q, "TEMP_WORKSPACE_CREATED")
        /\ TMPLOC[q] \in dirs
        /\ ActiveLocation(q) = TMPLOC[q]

\* What an invocation created is gone.
ArtifactsRemoved(p) ==
    /\ TMPLOC[p] \notin dirs
    /\ SRCGISRC[p] \notin DOMAIN files
    /\ Range(rm_file[p]) \cap DOMAIN files = {}

\* C8 as stated: however the process ends, by exit or by a signal, the temporary
\* location, its GISRC file and the generated output file are removed.
C8_RemovedOnEveryExitPath ==
    \A p \in Procs : pc[p] \in {"exited", "killed"} => ArtifactsRemoved(p)

\* C8 as amended: the removal happens on every path through the interpreter's
\* exit, that of an interrupt (SIGINT) raised in main() included; a process ended
\* by a signal Python does not handle runs no cleanup, and the location and the
\* GISRC file it created remain.
C8_RemovedOnInterpreterExit ==
    \A p \in Procs :
        /\ Exited(p) => (ArtifactsRemoved(p) /\ Entered(p, "CLEANUP"))
        /\ pc[p] = "killed" =>
              /\ ~Entered(p, "CLEANUP")
              /\ Entered(p, "TEMP_WORKSPACE_CREATED") => TMPLOC[p] \in dirs
              /\ SRCGISRC[p] # None => SRCGISRC[p] \in DOMAIN files

\* C8 witness: an invocation interrupted after its location was created has exited.
C8_Witness ==
    \E p \in Procs :
        /\ Exited(p)
        /\ sig[p] = "SIGINT"
        /\ Entered(p, "TEMP_WORKSPACE_CREATED")

\* Neither the GISRC pointer nor the file system nor the database has been touched.
NothingCreated(p) ==
    /\ environ[p].GISRC = OrigGisrc
    /\ SRCGISRC[p] = None
    /\ TMPLOC[p] = None
    /\ dirs = {OrigLocation}
    /\ DOMAIN files = {OrigGisrc}

\* C9 as stated: until the current location is recorded, no environment variable
\* is written and no temporary file or location is created.
C9_RecordedBeforeAnyMutation ==
    \A p \in Procs :
        (pc[p] # "idle" /\ TGTGISRC[p] = None) => (~environ[p].tuned /\ NothingCreated(p))

\* C9 as amended: until the current location is recorded, GISRC is not written and
\* no temporary file or location is created; the three settings of lines 132-138
\* are written to the environment before the recording.
C9_RecordedBeforeSwitch ==
    \A p \in Procs :
        /\ (pc[p] # "idle" /\ TGTGISRC[p] = None) => NothingCreated(p)
        /\ pc[p] = "get_actual_location" => (environ[p].tuned /\ TGTGISRC[p] = None)

\* C9 witness: the location was recorded and GISRC then switched to the temporary
\* location's file.
C9_Witness ==
    \E p \in Procs :
        /\ TGTGISRC[p] = OrigGisrc
        /\ GISDBASE[p] = OrigGisdbase
        /\ environ[p].GISRC = SRCGISRC[p]
        /\ TMPLOC[p] \in dirs

AtPositions(s) == {i \in 1..Len(s) : s[i] = "@"}

\* The pair the claim derives from an input string.
ExpectedRef(vect) ==
    IF Cardinality(AtPositions(vect)) = 1
    THEN LET k == CHOOSE i \in AtPositions(vect) : TRUE
         IN  <<SubSeq(vect, 1, k - 1), SubSeq(vect, k + 1, Len(vect))>>
    ELSE <<vect, OrigMapset>>

\* C10: every v.proj invocation reads the layer of the pair derived from the
\* input (name and mapset of name@mapset, else the input and the mapset of the
\* original location) from the original location and writes it under the same
\* name, and every v.out.ogr invocation exports that name.
C10_LayerReference ==
    \A p \in Procs :
        \A i \in 1..Len(calls[p]) :
            LET c == calls[p][i]
            IN  /\ c.cmd = "v.proj" =>
                      /\ <<c.input, c.mapset>> = ExpectedRef(options[p].input)
                      /\ c.output_layer = c.input
                      /\ c.location = OrigLocation
                /\ c.cmd = "v.out.ogr" =>
                      /\ c.input = ExpectedRef(options[p].input)[1]
                      /\ i > 1
                      /\ calls[p][i - 1].cmd = "v.proj"
                      /\ calls[p][i - 1].output_layer = c.input

\* C10 witness: a layer given without mapset was reprojected and exported while
\* the active mapset was that of the temporary location.
C10_Witness ==
    \E p \in Procs :
        /\ Len(calls[p]) = 2
        /\ ~Contains(options[p].input, "@")
        /\ calls[p][1].mapset = OrigMapset
        /\ ActiveMapset(p) = TmpMapset

====
